---- MODULE Spec2Model ----
(***************************************************************************)
(* librbd::api::Io<I> (src/librbd/api/Io.cc): the synchronous wrappers     *)
(* read, write, discard, write_same, compare_and_write, flush and the six  *)
(* aio_* entry points, run by caller threads against one image, together   *)
(* with the collaborators they touch: the image's image_lock and size, the *)
(* AioCompletion of each call, the image dispatch pipeline that resolves   *)
(* submitted requests, and a concurrent resize.                            *)
(***************************************************************************)
EXTENDS Integers, Sequences, FiniteSets, TLC

\* ---------------------------------------------------------------- bounds
MaxOff == 1
MaxLen == 2
MaxSize == 2

\* ------------------------------------------------------------- constants
\* errno values: -ENODEV is what is_valid_io fails the completion with,
\* -EINVAL what clip_io answers for an offset at or past the image size.
ENODEV == 19
EINVAL == 22

Threads == {"t1", "t2"}

\* Offsets, lengths and sizes are far below 2^63: the conversions of the
\* uint64_t len to the ssize_t the wrappers return keep the value.
Offsets == 0..MaxOff
Lengths == 1..MaxLen
Sizes == 1..MaxSize

\* What the dispatch pipeline may resolve a completion with: an error
\* (-EILSEQ, the compare mismatch), zero, or a positive byte count.
PipelineResults == {-84, 0, 7}

\* -------------------------------------------------------- entry points
SyncWriteClass == {"write", "discard", "write_same", "compare_and_write"}
SyncEntryPoints == SyncWriteClass \cup {"read", "flush"}
AioEntryPoints == {"aio_read", "aio_write", "aio_discard", "aio_write_same",
                   "aio_compare_and_write", "aio_flush"}

\* The aio_* entry point each synchronous wrapper calls.
AioOf(ep) ==
  CASE ep = "read" -> "aio_read"
    [] ep = "write" -> "aio_write"
    [] ep = "discard" -> "aio_discard"
    [] ep = "write_same" -> "aio_write_same"
    [] ep = "compare_and_write" -> "aio_compare_and_write"
    [] ep = "flush" -> "aio_flush"
    [] OTHER -> ep

\* The io::AIO_TYPE_* an aio_* entry point hands to init_time.
AioType(aep) ==
  CASE aep = "aio_read" -> "AIO_TYPE_READ"
    [] aep = "aio_write" -> "AIO_TYPE_WRITE"
    [] aep = "aio_discard" -> "AIO_TYPE_DISCARD"
    [] aep = "aio_write_same" -> "AIO_TYPE_WRITESAME"
    [] aep = "aio_compare_and_write" -> "AIO_TYPE_COMPARE_AND_WRITE"
    [] aep = "aio_flush" -> "AIO_TYPE_FLUSH"

\* The ImageDispatchSpec<I>::create_* constructor of an aio_* entry point.
CreateKind(aep) ==
  CASE aep = "aio_read" -> "create_read"
    [] aep = "aio_write" -> "create_write"
    [] aep = "aio_discard" -> "create_discard"
    [] aep = "aio_write_same" -> "create_write_same"
    [] aep = "aio_compare_and_write" -> "create_compare_and_write"
    [] aep = "aio_flush" -> "create_flush"

\* ------------------------------------------------------------------ state
VARIABLES
  image_size,          \* ImageCtx: the image's logical size
  data_ctx_valid,      \* ImageCtx: data_ctx.is_valid(), fixed while I/O runs
  event_socket_valid,  \* ImageCtx: event_socket.is_valid(), likewise
  image_lock,          \* ImageCtx::image_lock: [readers, writer]
  pc,                  \* each thread's position in its call
  call,                \* each thread's call: [ep, off, len, native_async]
  len,                 \* the wrapper's variable len (clip_io writes it)
  r,                   \* the wrapper's variable r
  ret,                 \* the value the call returned
  clip_size,           \* the image size clip_io read (0: no clip ran)
  aio_comp,            \* the call's AioCompletion
  sent,                \* the requests the call sent, in order
  delivered,           \* the results the pipeline gave the call's requests
  pipeline             \* requests submitted and not yet resolved

vars == <<image_size, data_ctx_valid, event_socket_valid, image_lock, pc, call,
          len, r, ret, clip_size, aio_comp, sent, delivered, pipeline>>

image_vars == <<image_size, data_ctx_valid, event_socket_valid>>

NoCall == [ep |-> "none", off |-> 0, len |-> 0, native_async |-> FALSE]

\* A completion that does not exist (nothing created yet).
NoCompletion ==
  [exists |-> FALSE, aio_type |-> "AIO_TYPE_NONE", event_notify |-> FALSE,
   ncomplete |-> 0, nfail |-> 0, rval |-> 0]

\* io::AioCompletion::create(&ctx): a fresh, unresolved completion.
AioCompletion_create == [NoCompletion EXCEPT !.exists = TRUE]

IsComplete(c) == c.ncomplete > 0

\* AioCompletion::fail(r): resolves the completion with the error r.
fail(c, rv) ==
  [c EXCEPT !.ncomplete = @ + 1, !.nfail = @ + 1, !.rval = rv]

\* The pipeline's resolution of a completion with result rv.
complete(c, rv) ==
  [c EXCEPT !.ncomplete = @ + 1, !.rval = rv]

IsSync(t) == call[t].ep \in SyncEntryPoints
IsAio(t) == call[t].ep \in AioEntryPoints
IsSyncWriteClass(t) == call[t].ep \in SyncWriteClass

Init ==
  /\ image_size \in Sizes
  /\ data_ctx_valid \in BOOLEAN
  /\ event_socket_valid \in BOOLEAN
  /\ image_lock = [readers |-> {}, writer |-> FALSE]
  /\ pc = [t \in Threads |-> "idle"]
  /\ call = [t \in Threads |-> NoCall]
  /\ len = [t \in Threads |-> 0]
  /\ r = [t \in Threads |-> 0]
  /\ ret = [t \in Threads |-> 0]
  /\ clip_size = [t \in Threads |-> 0]
  /\ aio_comp = [t \in Threads |-> NoCompletion]
  /\ sent = [t \in Threads |-> <<>>]
  /\ delivered = [t \in Threads |-> <<>>]
  /\ pipeline = {}

\* ------------------------------------------------------------ clip_io
\* clip_io(ictx, off, &len): the status it returns ...
clip_io_r(size, off, n) ==
  IF off >= size THEN -EINVAL ELSE 0

\* ... and the length it leaves in *len.
clip_io_len(size, off, n) ==
  IF off >= size THEN n
  ELSE IF off + n > size THEN size - off
  ELSE n

\* ------------------------------------------------- synchronous wrappers
\* sync_call with read clipped like the write-class wrappers.
sync_call_clips_read(t, ep, off, n) ==
  /\ pc[t] = "idle"
  /\ call' = [call EXCEPT ![t] =
                [ep |-> ep, off |-> off, len |-> n, native_async |-> FALSE]]
  /\ len' = [len EXCEPT ![t] = n]
  /\ pc' = [pc EXCEPT ![t] =
              IF ep \in SyncWriteClass \cup {"read"} THEN "lock_shared"
              ELSE "create"]
  /\ UNCHANGED <<image_vars, image_lock, r, ret, clip_size, aio_comp, sent,
                 delivered, pipeline>>

\* sync_call with the write-class wrappers going straight to their
\* completion, as read and flush do: no clip.
sync_call_no_clip(t, ep, off, n) ==
  /\ pc[t] = "idle"
  /\ call' = [call EXCEPT ![t] =
                [ep |-> ep, off |-> off, len |-> n, native_async |-> FALSE]]
  /\ len' = [len EXCEPT ![t] = n]
  /\ pc' = [pc EXCEPT ![t] = "create"]
  /\ UNCHANGED <<image_vars, image_lock, r, ret, clip_size, aio_comp, sent,
                 delivered, pipeline>>

\* A thread enters read/write/discard/write_same/compare_and_write/flush.
\* The write-class wrappers start by taking image_lock; read and flush go
\* straight to creating their completion.
sync_call(t, ep, off, n) ==
  /\ pc[t] = "idle"
  /\ call' = [call EXCEPT ![t] =
                [ep |-> ep, off |-> off, len |-> n, native_async |-> FALSE]]
  /\ len' = [len EXCEPT ![t] = n]
  /\ pc' = [pc EXCEPT ![t] =
              IF ep \in SyncWriteClass THEN "lock_shared" ELSE "create"]
  /\ UNCHANGED <<image_vars, image_lock, r, ret, clip_size, aio_comp, sent,
                 delivered, pipeline>>

\* The wrapper going on to clip_io without having taken image_lock.
lock_shared_no_acquire(t) ==
  /\ pc[t] = "lock_shared"
  /\ pc' = [pc EXCEPT ![t] = "clip_io"]
  /\ UNCHANGED <<image_vars, image_lock, call, len, r, ret, clip_size,
                 aio_comp, sent, delivered, pipeline>>

\* image_ctx.image_lock.lock_shared(): blocks while a writer holds the lock.
lock_shared(t) ==
  /\ pc[t] = "lock_shared"
  /\ ~image_lock.writer
  /\ image_lock' = [image_lock EXCEPT !.readers = @ \cup {t}]
  /\ pc' = [pc EXCEPT ![t] = "clip_io"]
  /\ UNCHANGED <<image_vars, call, len, r, ret, clip_size, aio_comp, sent,
                 delivered, pipeline>>

\* clip with clip_io given a copy of len: the wrapper's len stays as asked.
clip_keeps_len(t) ==
  /\ pc[t] = "clip_io"
  /\ r' = [r EXCEPT ![t] = clip_io_r(image_size, call[t].off, len[t])]
  /\ clip_size' = [clip_size EXCEPT ![t] = image_size]
  /\ pc' = [pc EXCEPT ![t] = "unlock_shared"]
  /\ UNCHANGED <<image_vars, image_lock, call, len, ret, aio_comp, sent,
                 delivered, pipeline>>

\* int r = clip_io(util::get_image_ctx(&image_ctx), off, &len);
clip(t) ==
  /\ pc[t] = "clip_io"
  /\ r' = [r EXCEPT ![t] = clip_io_r(image_size, call[t].off, len[t])]
  /\ len' = [len EXCEPT ![t] = clip_io_len(image_size, call[t].off, len[t])]
  /\ clip_size' = [clip_size EXCEPT ![t] = image_size]
  /\ pc' = [pc EXCEPT ![t] = "unlock_shared"]
  /\ UNCHANGED <<image_vars, image_lock, call, ret, aio_comp, sent, delivered,
                 pipeline>>

\* unlock_shared releasing the lock on the success path only: the return of
\* a rejected clip leaves image_lock held.
unlock_shared_leak(t) ==
  /\ pc[t] = "unlock_shared"
  /\ IF r[t] < 0
       THEN /\ ret' = [ret EXCEPT ![t] = r[t]]
            /\ pc' = [pc EXCEPT ![t] = "returned"]
            /\ UNCHANGED image_lock
       ELSE /\ pc' = [pc EXCEPT ![t] = "create"]
            /\ image_lock' = [image_lock EXCEPT !.readers = @ \ {t}]
            /\ UNCHANGED ret
  /\ UNCHANGED <<image_vars, call, len, r, clip_size, aio_comp, sent,
                 delivered, pipeline>>

\* unlock_shared without the test of r: the wrapper goes on after a
\* rejected clip.
unlock_shared_no_check(t) ==
  /\ pc[t] = "unlock_shared"
  /\ image_lock' = [image_lock EXCEPT !.readers = @ \ {t}]
  /\ pc' = [pc EXCEPT ![t] = "create"]
  /\ UNCHANGED <<image_vars, call, len, r, ret, clip_size, aio_comp, sent,
                 delivered, pipeline>>

\* image_ctx.image_lock.unlock_shared(); if (r < 0) { return r; }
unlock_shared(t) ==
  /\ pc[t] = "unlock_shared"
  /\ image_lock' = [image_lock EXCEPT !.readers = @ \ {t}]
  /\ IF r[t] < 0
       THEN /\ ret' = [ret EXCEPT ![t] = r[t]]
            /\ pc' = [pc EXCEPT ![t] = "returned"]
       ELSE /\ pc' = [pc EXCEPT ![t] = "create"]
            /\ UNCHANGED ret
  /\ UNCHANGED <<image_vars, call, len, r, clip_size, aio_comp, sent,
                 delivered, pipeline>>

\* C_SaferCond ctx; auto aio_comp = io::AioCompletion::create(&ctx);
\* followed by the call of the aio_* entry point.
create(t) ==
  /\ pc[t] = "create"
  /\ aio_comp' = [aio_comp EXCEPT ![t] = AioCompletion_create]
  /\ pc' = [pc EXCEPT ![t] = "init_time"]
  /\ UNCHANGED <<image_vars, image_lock, call, len, r, ret, clip_size, sent,
                 delivered, pipeline>>

\* sync_result returning the completion's result for every wrapper.
sync_result_r(ep, rv, n) == rv

\* sync_result with flush returning the completion's result as it is.
sync_result_flush_r(ep, rv, n) ==
  CASE ep \in {"read", "flush"} -> rv
    [] OTHER -> IF rv < 0 THEN rv ELSE n

\* The wrapper's result from the completion's result rv and its len.
sync_result(ep, rv, n) ==
  CASE ep = "read" -> rv
    [] ep = "flush" -> IF rv < 0 THEN rv ELSE 0
    [] OTHER -> IF rv < 0 THEN rv ELSE n

\* wait on a condition shared by the wrappers: any resolved completion
\* wakes the waiter, which takes that completion's result.
wait_any(t) ==
  /\ pc[t] = "wait"
  /\ \E u \in Threads :
       /\ IsComplete(aio_comp[u])
       /\ r' = [r EXCEPT ![t] = aio_comp[u].rval]
       /\ ret' = [ret EXCEPT ![t] =
                    sync_result(call[t].ep, aio_comp[u].rval, len[t])]
  /\ pc' = [pc EXCEPT ![t] = "returned"]
  /\ UNCHANGED <<image_vars, image_lock, call, len, clip_size, aio_comp, sent,
                 delivered, pipeline>>

\* r = ctx.wait(); and the wrapper's return.
wait(t) ==
  /\ pc[t] = "wait"
  /\ IsComplete(aio_comp[t])
  /\ r' = [r EXCEPT ![t] = aio_comp[t].rval]
  /\ ret' = [ret EXCEPT ![t] = sync_result(call[t].ep, aio_comp[t].rval, len[t])]
  /\ pc' = [pc EXCEPT ![t] = "returned"]
  /\ UNCHANGED <<image_vars, image_lock, call, len, clip_size, aio_comp, sent,
                 delivered, pipeline>>

\* ------------------------------------------------------ aio_* entry points
\* aio_call with the entry point taking image_lock and clipping first, as
\* the write-class wrappers do.
aio_call_clipped(t, ep, off, n, native_async) ==
  /\ pc[t] = "idle"
  /\ call' = [call EXCEPT ![t] =
                [ep |-> ep, off |-> off, len |-> n,
                 native_async |-> native_async]]
  /\ len' = [len EXCEPT ![t] = n]
  /\ aio_comp' = [aio_comp EXCEPT ![t] = AioCompletion_create]
  /\ pc' = [pc EXCEPT ![t] = "lock_shared"]
  /\ UNCHANGED <<image_vars, image_lock, r, ret, clip_size, sent, delivered,
                 pipeline>>

\* A thread enters an aio_* entry point with a completion of its own.
aio_call(t, ep, off, n, native_async) ==
  /\ pc[t] = "idle"
  /\ call' = [call EXCEPT ![t] =
                [ep |-> ep, off |-> off, len |-> n,
                 native_async |-> native_async]]
  /\ len' = [len EXCEPT ![t] = n]
  /\ aio_comp' = [aio_comp EXCEPT ![t] = AioCompletion_create]
  /\ pc' = [pc EXCEPT ![t] = "init_time"]
  /\ UNCHANGED <<image_vars, image_lock, r, ret, clip_size, sent, delivered,
                 pipeline>>

\* aio_comp->init_time(util::get_image_ctx(&image_ctx), io::AIO_TYPE_*);
init_time(t) ==
  /\ pc[t] = "init_time"
  /\ aio_comp' = [aio_comp EXCEPT ![t].aio_type = AioType(AioOf(call[t].ep))]
  /\ pc' = [pc EXCEPT ![t] = "set_event_notify"]
  /\ UNCHANGED <<image_vars, image_lock, call, len, r, ret, clip_size, sent,
                 delivered, pipeline>>

\* Where the thread is once the aio_* entry point has returned: in the
\* wrapper's ctx.wait(), or back in the caller.
aio_return(t) == IF IsSync(t) THEN "wait" ELSE "returned"

\* The guard moved in front of set_event_notify: a rejected call returns
\* before the flag is set.
set_event_notify_after_guard(t) ==
  /\ pc[t] = "set_event_notify"
  /\ IF ~data_ctx_valid
       THEN /\ aio_comp' = [aio_comp EXCEPT ![t] = fail(@, -ENODEV)]
            /\ pc' = [pc EXCEPT ![t] = aio_return(t)]
       ELSE /\ aio_comp' = [aio_comp EXCEPT ![t].event_notify =
                              IF call[t].native_async /\ event_socket_valid
                                THEN TRUE ELSE @]
            /\ pc' = [pc EXCEPT ![t] = "send"]
  /\ UNCHANGED <<image_vars, image_lock, call, len, r, ret, clip_size, sent,
                 delivered, pipeline>>

\* set_event_notify without the test of the event socket.
set_event_notify_no_socket_check(t) ==
  /\ pc[t] = "set_event_notify"
  /\ aio_comp' = [aio_comp EXCEPT ![t].event_notify =
                    IF call[t].native_async THEN TRUE ELSE @]
  /\ pc' = [pc EXCEPT ![t] = "is_valid_io"]
  /\ UNCHANGED <<image_vars, image_lock, call, len, r, ret, clip_size, sent,
                 delivered, pipeline>>

\* if (native_async && image_ctx.event_socket.is_valid())
\*   aio_comp->set_event_notify(true);
set_event_notify(t) ==
  /\ pc[t] = "set_event_notify"
  /\ aio_comp' = [aio_comp EXCEPT ![t].event_notify =
                    IF call[t].native_async /\ event_socket_valid
                      THEN TRUE ELSE @]
  /\ pc' = [pc EXCEPT ![t] = "is_valid_io"]
  /\ UNCHANGED <<image_vars, image_lock, call, len, r, ret, clip_size, sent,
                 delivered, pipeline>>

\* is_valid_io answering true whatever data_ctx is.
is_valid_io_skipped(t) ==
  /\ pc[t] = "is_valid_io"
  /\ pc' = [pc EXCEPT ![t] = "send"]
  /\ UNCHANGED <<image_vars, image_lock, call, len, r, ret, clip_size,
                 aio_comp, sent, delivered, pipeline>>

\* The guard without its return: the completion is failed and the request
\* is built and sent all the same.
is_valid_io_no_return(t) ==
  /\ pc[t] = "is_valid_io"
  /\ aio_comp' = [aio_comp EXCEPT ![t] =
                    IF ~data_ctx_valid THEN fail(@, -ENODEV) ELSE @]
  /\ pc' = [pc EXCEPT ![t] = "send"]
  /\ UNCHANGED <<image_vars, image_lock, call, len, r, ret, clip_size, sent,
                 delivered, pipeline>>

\* The guard returning false without failing the completion.
is_valid_io_no_fail(t) ==
  /\ pc[t] = "is_valid_io"
  /\ pc' = [pc EXCEPT ![t] =
              IF ~data_ctx_valid THEN aio_return(t) ELSE "send"]
  /\ UNCHANGED <<image_vars, image_lock, call, len, r, ret, clip_size,
                 aio_comp, sent, delivered, pipeline>>

\* The guard failing the completion with -EINVAL.
is_valid_io_einval(t) ==
  /\ pc[t] = "is_valid_io"
  /\ IF ~data_ctx_valid
       THEN /\ aio_comp' = [aio_comp EXCEPT ![t] = fail(@, -EINVAL)]
            /\ pc' = [pc EXCEPT ![t] = aio_return(t)]
       ELSE /\ pc' = [pc EXCEPT ![t] = "send"]
            /\ UNCHANGED aio_comp
  /\ UNCHANGED <<image_vars, image_lock, call, len, r, ret, clip_size, sent,
                 delivered, pipeline>>

\* if (!is_valid_io(image_ctx, aio_comp)) { return; }
is_valid_io(t) ==
  /\ pc[t] = "is_valid_io"
  /\ IF ~data_ctx_valid
       THEN /\ aio_comp' = [aio_comp EXCEPT ![t] = fail(@, -ENODEV)]
            /\ pc' = [pc EXCEPT ![t] = aio_return(t)]
       ELSE /\ pc' = [pc EXCEPT ![t] = "send"]
            /\ UNCHANGED aio_comp
  /\ UNCHANGED <<image_vars, image_lock, call, len, r, ret, clip_size, sent,
                 delivered, pipeline>>

\* The request with its length clipped again, against the size at send.
ImageDispatchSpec_create_reclipped(t) ==
  [kind |-> CreateKind(AioOf(call[t].ep)),
   layer |-> "IMAGE_DISPATCH_LAYER_API_START",
   aio_comp |-> t, off |-> call[t].off,
   len |-> clip_io_len(image_size, call[t].off, len[t])]

\* The request with aio_write_same building a plain write.
ImageDispatchSpec_create_write_for_write_same(t) ==
  [kind |-> IF AioOf(call[t].ep) = "aio_write_same" THEN "create_write"
            ELSE CreateKind(AioOf(call[t].ep)),
   layer |-> "IMAGE_DISPATCH_LAYER_API_START",
   aio_comp |-> t, off |-> call[t].off, len |-> len[t]]

\* The request ImageDispatchSpec<I>::create_*(image_ctx,
\* IMAGE_DISPATCH_LAYER_API_START, aio_comp, off, len, ...) builds.
ImageDispatchSpec_create(t) ==
  [kind |-> CreateKind(AioOf(call[t].ep)),
   layer |-> "IMAGE_DISPATCH_LAYER_API_START",
   aio_comp |-> t, off |-> call[t].off, len |-> len[t]]

\* send growing the image to the end of a request that reaches past it.
send_extends_image(t) ==
  /\ pc[t] = "send"
  /\ pipeline' = pipeline \cup {ImageDispatchSpec_create(t)}
  /\ sent' = [sent EXCEPT ![t] = Append(@, ImageDispatchSpec_create(t))]
  /\ pc' = [pc EXCEPT ![t] = aio_return(t)]
  /\ image_size' = IF call[t].off + len[t] > image_size
                     THEN call[t].off + len[t] ELSE image_size
  /\ UNCHANGED <<data_ctx_valid, event_socket_valid, image_lock, call, len, r,
                 ret, clip_size, aio_comp, delivered>>

\* send entered only while no resize holds image_lock.
send_under_lock(t) ==
  /\ pc[t] = "send"
  /\ ~image_lock.writer
  /\ pipeline' = pipeline \cup {ImageDispatchSpec_create(t)}
  /\ sent' = [sent EXCEPT ![t] = Append(@, ImageDispatchSpec_create(t))]
  /\ pc' = [pc EXCEPT ![t] = aio_return(t)]
  /\ UNCHANGED <<image_vars, image_lock, call, len, r, ret, clip_size,
                 aio_comp, delivered>>

\* auto req = io::ImageDispatchSpec<I>::create_*(...); req->send();
send(t) ==
  /\ pc[t] = "send"
  /\ pipeline' = pipeline \cup {ImageDispatchSpec_create(t)}
  /\ sent' = [sent EXCEPT ![t] = Append(@, ImageDispatchSpec_create(t))]
  /\ pc' = [pc EXCEPT ![t] = aio_return(t)]
  /\ UNCHANGED <<image_vars, image_lock, call, len, r, ret, clip_size,
                 aio_comp, delivered>>

\* --------------------------------------------------------- collaborators
\* The dispatch pipeline finishes a submitted request and resolves the
\* completion attached to it.
pipeline_resolve(req, rv) ==
  /\ req \in pipeline
  /\ pipeline' = pipeline \ {req}
  /\ aio_comp' = [aio_comp EXCEPT ![req.aio_comp] = complete(@, rv)]
  /\ delivered' = [delivered EXCEPT ![req.aio_comp] = Append(@, rv)]
  /\ UNCHANGED <<image_vars, image_lock, pc, call, len, r, ret, clip_size,
                 sent>>

\* The caller is done with a returned call (and its resolved completion)
\* and is free to issue the next one.
finish(t) ==
  /\ pc[t] = "returned"
  /\ aio_comp[t].exists => IsComplete(aio_comp[t])
  /\ \A req \in pipeline : req.aio_comp # t
  /\ pc' = [pc EXCEPT ![t] = "idle"]
  /\ call' = [call EXCEPT ![t] = NoCall]
  /\ len' = [len EXCEPT ![t] = 0]
  /\ r' = [r EXCEPT ![t] = 0]
  /\ ret' = [ret EXCEPT ![t] = 0]
  /\ clip_size' = [clip_size EXCEPT ![t] = 0]
  /\ aio_comp' = [aio_comp EXCEPT ![t] = NoCompletion]
  /\ sent' = [sent EXCEPT ![t] = <<>>]
  /\ delivered' = [delivered EXCEPT ![t] = <<>>]
  /\ UNCHANGED <<image_vars, image_lock, pipeline>>

\* A resize takes image_lock exclusively ...
resize_lock ==
  /\ ~image_lock.writer
  /\ image_lock.readers = {}
  /\ image_lock' = [image_lock EXCEPT !.writer = TRUE]
  /\ UNCHANGED <<image_vars, pc, call, len, r, ret, clip_size, aio_comp, sent,
                 delivered, pipeline>>

\* ... changes the image's size and releases the lock.
resize_apply(size) ==
  /\ image_lock.writer
  /\ image_size' = size
  /\ image_lock' = [image_lock EXCEPT !.writer = FALSE]
  /\ UNCHANGED <<data_ctx_valid, event_socket_valid, pc, call, len, r, ret,
                 clip_size, aio_comp, sent, delivered, pipeline>>

\* ---------------------------------------------------------- specification
\* The calls a thread may issue with offsets offs and lengths lens; flush
\* and aio_flush carry no extent.
Call(t, offs, lens) ==
  \/ \E ep \in SyncEntryPoints \ {"flush"}, off \in offs, n \in lens :
       sync_call(t, ep, off, n)
  \/ sync_call(t, "flush", 0, 0)
  \/ \E ep \in AioEntryPoints \ {"aio_flush"}, off \in offs, n \in lens,
        na \in BOOLEAN :
       aio_call(t, ep, off, n, na)
  \/ \E na \in BOOLEAN : aio_call(t, "aio_flush", 0, 0, na)

\* A step of a thread inside its call.
Step(t) ==
  \/ lock_shared(t)
  \/ clip(t)
  \/ unlock_shared(t)
  \/ create(t)
  \/ init_time(t)
  \/ set_event_notify(t)
  \/ is_valid_io(t)
  \/ send(t)
  \/ wait(t)

Pipeline == \E req \in pipeline, rv \in PipelineResults : pipeline_resolve(req, rv)

Resize == resize_lock \/ \E size \in Sizes : resize_apply(size)

\* One caller thread, every entry point and every extent of the bounds.
Next ==
  \/ Call("t1", Offsets, Lengths)
  \/ Step("t1")
  \/ finish("t1")
  \/ Pipeline
  \/ Resize

Spec == Init /\ [][Next]_vars

\* Two caller threads on the same image, each issuing any entry point at
\* offset 0 with the longest length (clipped or not, as the size has it).
NextMT ==
  \/ \E t \in Threads : Call(t, {0}, {MaxLen})
  \/ \E t \in Threads : Step(t)
  \/ \E t \in Threads : finish(t)
  \/ Pipeline
  \/ Resize

SpecMT == Init /\ [][NextMT]_vars

\* The single-caller specification with the scheduling the code runs under:
\* a running thread keeps taking steps, lock_shared gets the lock if it is
\* free again and again, a resize releases the lock it took, and the
\* pipeline resolves what was submitted to it.
FairSpec ==
  /\ Init /\ [][Next]_vars
  /\ WF_vars(Step("t1"))
  /\ SF_vars(lock_shared("t1"))
  /\ WF_vars(Pipeline)
  /\ WF_vars(\E size \in Sizes : resize_apply(size))

\* ------------------------------------------------------------------ claims
Returned(t) == pc[t] = "returned"

InPipeline(t) == {req \in pipeline : req.aio_comp = t}

\* The clip of a request of length n at offset off against the size sz.
Clipped(sz, off, n) == IF n < sz - off THEN n ELSE sz - off

\* Whether the call's clip ran and rejected its offset.
ClipRejected(t) ==
  IsSyncWriteClass(t) /\ clip_size[t] > 0 /\ call[t].off >= clip_size[t]

\* C1, as stated: with the backing data store invalid, every entry point
\* completes with -ENODEV (the synchronous wrappers return it, the aio_* calls
\* resolve the completion with it) and nothing is submitted.
C1_InvalidStoreAlwaysENODEV ==
  \A t \in Threads :
    (Returned(t) /\ ~data_ctx_valid) =>
      /\ sent[t] = <<>>
      /\ IsSync(t) => ret[t] = -ENODEV
      /\ IsAio(t) => (IsComplete(aio_comp[t]) /\ aio_comp[t].rval = -ENODEV)

\* C1, amended: with the backing data store invalid nothing is ever
\* submitted; an aio_* call fails its completion with -ENODEV and a
\* synchronous wrapper returns -ENODEV, except a write-class wrapper whose
\* offset clip_io rejected, which returns clip_io's -EINVAL.
C1_InvalidStore ==
  \A t \in Threads :
    ~data_ctx_valid =>
      /\ sent[t] = <<>>
      /\ InPipeline(t) = {}
      /\ Returned(t) =>
           /\ IsAio(t) => (aio_comp[t].ncomplete = 1 /\ aio_comp[t].nfail = 1
                           /\ aio_comp[t].rval = -ENODEV)
           /\ IsSync(t) =>
                ret[t] = IF ClipRejected(t) THEN -EINVAL ELSE -ENODEV

C1_Witness ==
  \E t \in Threads :
    /\ Returned(t) /\ ~data_ctx_valid
    /\ call[t].ep = "read" /\ ret[t] = -ENODEV /\ sent[t] = <<>>

\* C2: a completion is resolved at most once, and once an aio_* entry point
\* has returned it was either failed by the guard (nothing sent, the pipeline
\* never resolves it) or handed to the pipeline with one send (never failed by
\* this layer): never both, never neither.
C2_ResolvedExactlyOnce ==
  \A t \in Threads :
    LET c == aio_comp[t] IN
      /\ c.ncomplete <= 1
      /\ c.nfail + Len(sent[t]) <= 1
      /\ (c.exists /\ pc[t] \in {"wait", "returned"}) =>
           c.nfail + Len(sent[t]) = 1
      /\ c.nfail = 1 =>
           (c.ncomplete = 1 /\ delivered[t] = <<>> /\ InPipeline(t) = {})
      /\ Len(delivered[t]) <= Len(sent[t])
      /\ c.ncomplete = c.nfail + Len(delivered[t])

C2_Witness ==
  \E t \in Threads :
    /\ IsAio(t) /\ Returned(t)
    /\ aio_comp[t].ncomplete = 1 /\ aio_comp[t].nfail = 0
    /\ Len(sent[t]) = 1 /\ Len(delivered[t]) = 1

\* C3: the request a synchronous write-class wrapper submits ends at or before
\* the image size read at clip time, and is no longer than what was asked.
C3_ClippedRequest ==
  \A t \in Threads :
    IsSyncWriteClass(t) =>
      \A i \in 1..Len(sent[t]) :
        /\ sent[t][i].off = call[t].off
        /\ sent[t][i].off + sent[t][i].len <= clip_size[t]
        /\ sent[t][i].len <= call[t].len

C3_Witness ==
  \E t \in Threads :
    /\ IsSyncWriteClass(t) /\ Len(sent[t]) = 1
    /\ sent[t][1].len < call[t].len
    /\ sent[t][1].off + sent[t][1].len = clip_size[t]

\* C4: on pipeline success a synchronous write-class wrapper returns the
\* clipped length: not the length asked for, not the completion's result.
C4_ReturnsClippedLength ==
  \A t \in Threads :
    (IsSyncWriteClass(t) /\ Returned(t) /\ aio_comp[t].exists
       /\ aio_comp[t].rval >= 0) =>
      /\ ret[t] = Clipped(clip_size[t], call[t].off, call[t].len)
      /\ Len(sent[t]) = 1 /\ ret[t] = sent[t][1].len

C4_Witness ==
  \E t \in Threads :
    /\ call[t].ep = "write" /\ Returned(t)
    /\ aio_comp[t].rval = 7
    /\ ret[t] = clip_size[t] - call[t].off
    /\ ret[t] < call[t].len

\* C5: a synchronous write-class call whose offset is at or beyond the image
\* size at clip time returns -EINVAL; it creates no completion and builds and
\* sends no request.
C5_OffsetPastEndRejected ==
  \A t \in Threads :
    ClipRejected(t) =>
      /\ pc[t] \in {"unlock_shared", "returned"}
      /\ ~aio_comp[t].exists
      /\ sent[t] = <<>> /\ InPipeline(t) = {} /\ delivered[t] = <<>>
      /\ Returned(t) => ret[t] = -EINVAL

C5_Witness ==
  \E t \in Threads :
    /\ ClipRejected(t) /\ Returned(t) /\ data_ctx_valid
    /\ call[t].off = clip_size[t] /\ ret[t] = -EINVAL

\* C6: provided the pipeline resolves what is submitted to it, every
\* synchronous call returns, on every path.
C6_SyncCallReturns ==
  \A t \in Threads : (IsSync(t) /\ ~Returned(t)) ~> Returned(t)

C6_Witness ==
  \E t \in Threads :
    /\ IsSync(t) /\ Returned(t)
    /\ Len(delivered[t]) = 1 /\ delivered[t][1] < 0 /\ ret[t] = delivered[t][1]

\* C7: the wrappers' results: read returns the completion's result as it
\* is; the write-class wrappers return a negative result as it is and the
\* clipped length otherwise; flush returns a negative result as it is and 0
\* otherwise.
C7_ResultPostProcessing ==
  \A t \in Threads :
    (IsSync(t) /\ Returned(t) /\ aio_comp[t].exists) =>
      LET rv == aio_comp[t].rval IN
        /\ IsComplete(aio_comp[t])
        /\ r[t] = rv
        /\ call[t].ep = "read" => ret[t] = rv
        /\ call[t].ep = "flush" => ret[t] = (IF rv < 0 THEN rv ELSE 0)
        /\ IsSyncWriteClass(t) =>
             ret[t] = (IF rv < 0 THEN rv
                       ELSE Clipped(clip_size[t], call[t].off, call[t].len))

C7_Witness ==
  \E t \in Threads :
    /\ call[t].ep = "compare_and_write" /\ Returned(t)
    /\ aio_comp[t].rval = -84 /\ ret[t] = -84

\* C8, as stated: a synchronous write-class wrapper that returns -ENODEV
\* returns it before any completion was created.
C8_ENODEVBeforeCompletion ==
  \A t \in Threads :
    (IsSyncWriteClass(t) /\ Returned(t) /\ ret[t] = -ENODEV) =>
      ~aio_comp[t].exists

\* C8, amended: a synchronous write-class wrapper that passed its clip with
\* the backing data store invalid has created its completion, which the
\* guard inside the aio_* call failed with -ENODEV; the wrapper returns that
\* code from wait(). -ENODEV reaches the caller no other way.
C8_ENODEVThroughCompletion ==
  \A t \in Threads :
    (IsSyncWriteClass(t) /\ Returned(t)) =>
      /\ (~data_ctx_valid /\ ~ClipRejected(t)) => ret[t] = -ENODEV
      /\ ret[t] = -ENODEV =>
           /\ aio_comp[t].exists
           /\ aio_comp[t].nfail = 1 /\ aio_comp[t].ncomplete = 1
           /\ aio_comp[t].rval = -ENODEV
           /\ sent[t] = <<>>

C8_Witness ==
  \E t \in Threads :
    /\ IsSyncWriteClass(t) /\ Returned(t) /\ ret[t] = -ENODEV
    /\ aio_comp[t].exists /\ aio_comp[t].nfail = 1

\* C9: an aio_* call never takes image_lock and never waits: each of its
\* steps can be taken whatever the lock and the pipeline are doing.
C9_AioNeverBlocks ==
  \A t \in Threads :
    IsAio(t) =>
      /\ pc[t] \in {"init_time", "set_event_notify", "is_valid_io", "send",
                    "returned"}
      /\ t \notin image_lock.readers
      /\ ~Returned(t) => ENABLED Step(t)

C9_Witness ==
  \E t \in Threads :
    /\ IsAio(t) /\ Returned(t) /\ image_lock.writer
    /\ ~IsComplete(aio_comp[t]) /\ InPipeline(t) # {}

\* C10: a thread in wait() holds nobody else up, is woken by the resolution
\* of its own completion only, and returns its own request's result.
C10_WaitersIndependent ==
  \A t \in Threads :
    /\ pc[t] \in {"clip_io", "unlock_shared", "create", "init_time",
                  "set_event_notify", "is_valid_io", "send"} =>
         ENABLED Step(t)
    /\ pc[t] = "lock_shared" => (ENABLED Step(t) <=> ~image_lock.writer)
    /\ pc[t] = "wait" => (ENABLED Step(t) <=> IsComplete(aio_comp[t]))
    /\ pc[t] = "idle" => ENABLED sync_call(t, "read", 0, MaxLen)
    /\ (Len(sent[t]) = 1 /\ InPipeline(t) = {}) =>
         (Len(delivered[t]) = 1 /\ aio_comp[t].rval = delivered[t][1])
    /\ (IsSync(t) /\ Returned(t) /\ Len(sent[t]) = 1) =>
         /\ Len(delivered[t]) = 1
         /\ ret[t] = sync_result(call[t].ep, delivered[t][1], sent[t][1].len)

C10_Witness ==
  \E t, u \in Threads :
    /\ t # u
    /\ pc[t] = "wait" /\ ~IsComplete(aio_comp[t]) /\ InPipeline(t) # {}
    /\ IsSync(u) /\ Returned(u) /\ Len(delivered[u]) = 1
    /\ call[u].ep = call[t].ep

\* C11: a caller holds image_lock from lock_shared to unlock_shared and
\* nowhere else: not while its request is built and sent, not in wait(), not
\* after the return of a rejected clip; a resize finds the lock free whenever
\* no caller is between the two and no other resize holds it.
C11_LockOnlyAroundClip ==
  /\ \A t \in Threads :
       t \in image_lock.readers <=> pc[t] \in {"clip_io", "unlock_shared"}
  /\ ((\A t \in Threads : pc[t] \notin {"clip_io", "unlock_shared"})
        /\ ~image_lock.writer) => ENABLED resize_lock

C11_Witness ==
  \E t \in Threads :
    /\ IsSyncWriteClass(t) /\ pc[t] = "wait" /\ ~IsComplete(aio_comp[t])
    /\ InPipeline(t) # {} /\ image_lock.writer

\* Whether the call's clip_io has run, and whether its is_valid_io has.
ClipRan(t) == clip_size[t] > 0

GuardRan(t) ==
  aio_comp[t].nfail > 0 \/ pc[t] = "send" \/ sent[t] # <<>>

\* C12, as stated: the validity guard runs before the bounds clip, so a call
\* whose clip has run has had its backing store checked.
C12_GuardBeforeClip ==
  \A t \in Threads : ClipRan(t) => GuardRan(t)

\* C12, amended: in the synchronous write-class wrappers the clip comes
\* first and the guard after it, only for a call the clip let through; no
\* other call is clipped at all. A resolved completion is not touched again
\* and a call rejected by the clip does nothing more.
C12_ClipBeforeGuard ==
  /\ [](\A t \in Threads :
          /\ (IsSyncWriteClass(t) /\ GuardRan(t)) =>
               (ClipRan(t) /\ ~ClipRejected(t))
          /\ ~IsSyncWriteClass(t) => ~ClipRan(t))
  /\ [][\A t \in Threads :
          /\ IsComplete(aio_comp[t]) =>
               aio_comp'[t] \in {aio_comp[t], NoCompletion}
          /\ (ClipRejected(t) /\ Returned(t)) =>
               (pc'[t] \in {"returned", "idle"} /\ ~aio_comp'[t].exists)]_vars

C12_Witness ==
  \E t \in Threads :
    /\ IsSyncWriteClass(t) /\ ClipRan(t) /\ pc[t] = "is_valid_io"
    /\ ~GuardRan(t) /\ aio_comp[t].exists

WriteClassKinds ==
  {"create_write", "create_discard", "create_write_same",
   "create_compare_and_write"}

\* C13, as stated: no write-class request is built and sent, through any
\* entry point, without its offset checked and its length clipped against
\* the image size.
C13_EveryWriteRequestClipped ==
  \A t \in Threads :
    \A i \in 1..Len(sent[t]) :
      sent[t][i].kind \in WriteClassKinds =>
        /\ ClipRan(t)
        /\ sent[t][i].off + sent[t][i].len <= clip_size[t]

\* C13, amended: the clip runs before the request is built in the
\* synchronous write-class wrappers only; a direct aio_* call is never
\* clipped and its request carries the offset and length it was given, within
\* the image or not.
C13_ClipInWrappersOnly ==
  \A t \in Threads :
    /\ (IsSyncWriteClass(t) /\ (sent[t] # <<>> \/ pc[t] = "send")) =>
         /\ ClipRan(t) /\ ~ClipRejected(t)
         /\ len[t] = Clipped(clip_size[t], call[t].off, call[t].len)
    /\ IsAio(t) =>
         /\ ~ClipRan(t)
         /\ \A i \in 1..Len(sent[t]) :
              sent[t][i].off = call[t].off /\ sent[t][i].len = call[t].len

C13_Witness ==
  \E t \in Threads :
    /\ call[t].ep = "aio_write" /\ Len(sent[t]) = 1 /\ ~ClipRan(t)
    /\ sent[t][1].kind = "create_write"
    /\ sent[t][1].off >= image_size

\* C14: the completion's event-notify flag is set exactly when the caller
\* asked for native asynchronous notification and the image's event socket is
\* valid; a synchronous wrapper's completion never has it.
C14_EventNotify ==
  \A t \in Threads :
    /\ aio_comp[t].event_notify <=>
         /\ aio_comp[t].exists
         /\ pc[t] \in {"is_valid_io", "send", "wait", "returned"}
         /\ call[t].native_async /\ event_socket_valid
    /\ IsSync(t) => ~aio_comp[t].event_notify

C14_Witness ==
  \E t \in Threads :
    /\ call[t].ep = "aio_read" /\ call[t].native_async /\ event_socket_valid
    /\ aio_comp[t].event_notify /\ Len(sent[t]) = 1

\* The request kind of each entry point.
KindOfEntry(ep) ==
  CASE ep \in {"read", "aio_read"} -> "create_read"
    [] ep \in {"write", "aio_write"} -> "create_write"
    [] ep \in {"discard", "aio_discard"} -> "create_discard"
    [] ep \in {"write_same", "aio_write_same"} -> "create_write_same"
    [] ep \in {"compare_and_write", "aio_compare_and_write"} ->
         "create_compare_and_write"
    [] ep \in {"flush", "aio_flush"} -> "create_flush"
    [] OTHER -> "none"

\* C15: an aio_* call made with the backing store valid sends exactly one
\* request: of the entry point's kind, entering at the API-start layer, with
\* the completion, offset and length the call was given.
C15_OneRequestPerAio ==
  \A t \in Threads :
    /\ Len(sent[t]) <= 1
    /\ (data_ctx_valid /\ aio_comp[t].exists /\ pc[t] \in {"wait", "returned"})
         => Len(sent[t]) = 1
    /\ \A i \in 1..Len(sent[t]) :
         /\ sent[t][i].kind = KindOfEntry(call[t].ep)
         /\ sent[t][i].layer = "IMAGE_DISPATCH_LAYER_API_START"
         /\ sent[t][i].aio_comp = t
         /\ sent[t][i].off = call[t].off
         /\ sent[t][i].len = (IF IsAio(t) THEN call[t].len ELSE len[t])

C15_Witness ==
  \E t \in Threads :
    /\ call[t].ep = "aio_write_same" /\ Returned(t) /\ data_ctx_valid
    /\ Len(sent[t]) = 1 /\ sent[t][1].kind = "create_write_same"
    /\ sent[t][1].len = call[t].len

\* C16: read and flush are never clipped or rejected here: they take no
\* lock and read no size, and with a valid backing store their request goes
\* out with the offset and length asked for, wherever they lie; the wrapper
\* returns what the pipeline resolved.
C16_ReadFlushNotClipped ==
  \A t \in Threads :
    call[t].ep \in {"read", "flush"} =>
      /\ ~ClipRan(t) /\ t \notin image_lock.readers
      /\ pc[t] \notin {"lock_shared", "clip_io", "unlock_shared"}
      /\ (data_ctx_valid /\ pc[t] \in {"wait", "returned"}) =>
           /\ Len(sent[t]) = 1
           /\ sent[t][1].off = call[t].off /\ sent[t][1].len = call[t].len
      /\ (data_ctx_valid /\ Returned(t)) =>
           /\ Len(delivered[t]) = 1
           /\ ret[t] = IF call[t].ep = "read" \/ delivered[t][1] < 0
                        THEN delivered[t][1] ELSE 0
      /\ Returned(t) => ret[t] # -EINVAL

C16_Witness ==
  \E t \in Threads :
    /\ call[t].ep = "read" /\ Returned(t) /\ data_ctx_valid
    /\ call[t].off >= image_size
    /\ sent[t][1].off = call[t].off /\ ret[t] = 7

\* C17, as stated: whenever a call is about to read the image size (clip_io)
\* or the validity of the backing store (is_valid_io), its thread holds
\* image_lock in shared mode.
C17_ReadsUnderSharedLock ==
  \A t \in Threads :
    pc[t] \in {"clip_io", "is_valid_io"} => t \in image_lock.readers

\* C17, amended: the size is read under the shared lock, with no resize
\* holding it; the validity of the backing store is read by is_valid_io with
\* no lock held by the thread.
C17_SizeUnderLockValidityNot ==
  \A t \in Threads :
    /\ pc[t] = "clip_io" => (t \in image_lock.readers /\ ~image_lock.writer)
    /\ pc[t] = "is_valid_io" => t \notin image_lock.readers

C17_Witness ==
  \E t \in Threads :
    /\ pc[t] = "is_valid_io" /\ image_lock.writer
    /\ t \notin image_lock.readers /\ IsSyncWriteClass(t) /\ ClipRan(t)

\* The io::AIO_TYPE_* of each entry point.
TypeOfEntry(ep) ==
  CASE ep \in {"read", "aio_read"} -> "AIO_TYPE_READ"
    [] ep \in {"write", "aio_write"} -> "AIO_TYPE_WRITE"
    [] ep \in {"discard", "aio_discard"} -> "AIO_TYPE_DISCARD"
    [] ep \in {"write_same", "aio_write_same"} -> "AIO_TYPE_WRITESAME"
    [] ep \in {"compare_and_write", "aio_compare_and_write"} ->
         "AIO_TYPE_COMPARE_AND_WRITE"
    [] ep \in {"flush", "aio_flush"} -> "AIO_TYPE_FLUSH"
    [] OTHER -> "AIO_TYPE_NONE"

\* C18: a completion that the guard failed, that was handed to the pipeline,
\* or that is about to be, already has its operation kind and its event-notify
\* flag as the call sets them.
C18_InitBeforeResolution ==
  \A t \in Threads :
    (IsComplete(aio_comp[t]) \/ sent[t] # <<>> \/ pc[t] = "send") =>
      /\ aio_comp[t].aio_type = TypeOfEntry(call[t].ep)
      /\ aio_comp[t].event_notify =
           (call[t].native_async /\ event_socket_valid)

C18_Witness ==
  \E t \in Threads :
    /\ IsAio(t) /\ call[t].native_async /\ event_socket_valid
    /\ aio_comp[t].nfail = 1 /\ aio_comp[t].rval = -ENODEV
    /\ aio_comp[t].event_notify
    /\ aio_comp[t].aio_type = "AIO_TYPE_FLUSH"

\* C19: in a synchronous write-class call the length of the request sent
\* and the length returned on success are the one clip_io left, from the size
\* it read; the image's size at any later moment plays no part.
C19_LengthFixedAtClip ==
  \A t \in Threads :
    (IsSyncWriteClass(t) /\ ClipRan(t) /\ ~ClipRejected(t)) =>
      LET n == Clipped(clip_size[t], call[t].off, call[t].len) IN
        /\ len[t] = n
        /\ \A i \in 1..Len(sent[t]) : sent[t][i].len = n
        /\ \A req \in InPipeline(t) : req.len = n
        /\ (Returned(t) /\ delivered[t] # <<>> /\ aio_comp[t].rval >= 0) =>
             (ret[t] = n /\ ret[t] = sent[t][1].len)

C19_Witness ==
  \E t \in Threads :
    /\ IsSyncWriteClass(t) /\ Returned(t) /\ Len(delivered[t]) = 1
    /\ aio_comp[t].rval >= 0
    /\ ret[t] = sent[t][1].len
    /\ call[t].off + ret[t] > image_size
    /\ clip_size[t] # image_size

\* C20: a step of a call leaves the image's size, backing-store validity
\* and event-socket validity as they are; they change only in the step by
\* which a resize, holding image_lock exclusively, sets the size and lets go.
C20_ImageNotMutated ==
  [][/\ (pc' # pc) => UNCHANGED image_vars
     /\ (image_vars' # image_vars) =>
          /\ image_lock.writer /\ ~image_lock'.writer
          /\ UNCHANGED <<data_ctx_valid, event_socket_valid, pc, call,
                         aio_comp, sent, pipeline>>]_vars

C20_Witness ==
  \E t \in Threads :
    /\ call[t].ep = "aio_discard" /\ Returned(t) /\ Len(delivered[t]) = 1
    /\ delivered[t][1] >= 0
    /\ sent[t][1].off + sent[t][1].len > image_size
    /\ ~image_lock.writer

====
